---- MODULE Spec2Model ----
(***************************************************************************)
(* Model of the RNG operator: RngPerformer (performer.rs), RngAttester     *)
(* (attester.rs) and the driver main (main.rs).                            *)
(*                                                                         *)
(* The cryptographic library calls are modelled symbolically:              *)
(*   - Sha256::digest is a collision-free term over its input bytes;       *)
(*   - an Ed25519 signature is the unique valid signature of a message     *)
(*     under a signing key, together with the set of bit positions of its  *)
(*     64-byte encoding that differ from that valid encoding (mask);       *)
(*   - OsRng either delivers a byte stream or fails, and fill_bytes        *)
(*     panics when it fails.                                               *)
(* Byte strings (values and salts) are concrete sequences of 0..255.       *)
(***************************************************************************)
EXTENDS Integers, Sequences, FiniteSets, TLC

\* ---------------------------------------------------------------- bounds
\* Longest value handed to attest by the library's callers.
MaxLen == 1

\* Seeds of the byte streams OsRng may deliver to one call.
Seeds == {17, 200}

\* The attester instances the library's callers construct.
Instances == {"a1", "a2"}

\* --------------------------------------------------- program constants
\* attester.rs:36  vec![0u8; 32]
SALT_LEN == 32

\* main.rs:25  let random_number_length = 32;
random_number_length == 32

\* -------------------------------------------------------------- state
VARIABLES
    attesters,  \* the constructed RngAttester instances, by instance name
    prev,       \* the library call before the last one
    last,       \* the last library call: operation, arguments, result
    pc,         \* "api": callers use the library; otherwise main's position
    locals      \* main's local variables

vars == <<attesters, prev, last, pc, locals>>

\* ------------------------------------------------------------ results
Ok(v) == [tag |-> "Ok", val |-> v]

Err(m) == [tag |-> "Err", msg |-> m]

\* A panic unwinds the calling thread: the call returns nothing.
Panic == [tag |-> "Panic"]

\* What the OS random source does during one call: it delivers the byte
\* stream of a seed, or it fails.
OsRng == [ok : {TRUE}, seed : Seeds] \cup {[ok |-> FALSE]}

\* ------------------------------------------------------------- bytes
\* vec![0u8; n]
vec_zeros(n) == [i \in 1..n |-> 0]

\* OsRng.fill_bytes(dest) when the OS source delivers the stream of `seed`.
fill_bytes(dest, seed) == [i \in 1..Len(dest) |-> (seed + 37 * i) % 256]

\* slice.to_vec(): a byte-for-byte copy.
to_vec(slice) == [i \in 1..Len(slice) |-> slice[i]]

\* -------------------------------------------------------- cryptography
\* Sha256::digest(data), as a collision-free term.
Sha256_digest(data) == [sha256 |-> data]

\* SigningKey::generate(&mut csprng): the secret is read from the stream.
SigningKey_generate(seed) == [secret |-> fill_bytes(vec_zeros(32), seed)]

\* (&signing_key).verifying_key(): the public half of the keypair.
verifying_key(signing_key) == [point |-> signing_key.secret]

\* signing_key.sign(message): Ed25519 signing is deterministic.
sign(signing_key, message) ==
    [signer |-> signing_key, message |-> message, mask |-> {}]

\* public_key.verify(message, signature)
verify(public_key, message, signature) ==
    /\ signature.mask = {}
    /\ verifying_key(signature.signer) = public_key
    /\ signature.message = message

\* ------------------------------------------------------- performer.rs
\* RngPerformer::new(): the struct has no fields.
RngPerformer_new == [type |-> "RngPerformer"]

\* generate_random_number without its length check.
generate_random_number_unchecked(self, length, rng) ==
    IF rng.ok
    THEN Ok(fill_bytes(vec_zeros(length), rng.seed))
    ELSE Panic

\* RngPerformer::generate_random_number(&self, length); `rng` is what the
\* OS source does during the call.
generate_random_number(self, length, rng) ==
    IF length = 0
    THEN Err("Length must be a positive integer.")
    ELSE LET random_bytes == vec_zeros(length)
         IN  IF rng.ok
             THEN Ok(fill_bytes(random_bytes, rng.seed))
             ELSE Panic

\* -------------------------------------------------------- attester.rs
\* new() storing the verifying key of a second, separately generated key.
RngAttester_new_two_keys(rng) ==
    IF rng.ok
    THEN [tag |-> "Ok",
          val |-> [signing_key |-> SigningKey_generate(rng.seed),
                   verifying_key |->
                       verifying_key(SigningKey_generate(rng.seed + 1))]]
    ELSE [tag |-> "Panic"]

\* RngAttester::new(); `rng` is what the OS source does during the call.
RngAttester_new(rng) ==
    IF rng.ok
    THEN LET signing_key == SigningKey_generate(rng.seed)
         IN  Ok([signing_key |-> signing_key,
                 verifying_key |-> verifying_key(signing_key)])
    ELSE Panic

\* Default::default(): Self::new().expect(..) panics on Err.
RngAttester_default(rng) ==
    LET r == RngAttester_new(rng)
    IN  IF r.tag = "Err" THEN Panic ELSE r

\* attest hashing the value alone.
data_to_hash_no_salt(random_number, salt) == random_number

\* attest: data_to_hash = random_number followed by salt.
data_to_hash(random_number, salt) == random_number \o salt

\* attest refusing the empty value.
attest_rejects_empty(self, random_number, rng) ==
    IF Len(random_number) = 0
    THEN Err("Value must not be empty.")
    ELSE IF rng.ok
    THEN LET salt == fill_bytes(vec_zeros(SALT_LEN), rng.seed)
         IN  Ok([value |-> to_vec(random_number),
                 salt |-> salt,
                 signature |->
                     sign(self.signing_key,
                          Sha256_digest(random_number \o salt))])
    ELSE Panic

\* attest(&self, random_number); `rng` is what the OS source does during
\* the call.
attest(self, random_number, rng) ==
    IF rng.ok
    THEN LET salt == fill_bytes(vec_zeros(SALT_LEN), rng.seed)
             hashed_data == Sha256_digest(data_to_hash(random_number, salt))
             signature == sign(self.signing_key, hashed_data)
         IN  Ok([value |-> to_vec(random_number),
                 salt |-> salt,
                 signature |-> signature])
    ELSE Panic

\* get_public_key(&self)
get_public_key(self) == self.verifying_key

\* verify_attestation hashing salt followed by random_number.
data_to_verify_hash_swapped(random_number, salt) == salt \o random_number

\* verify_attestation: data_to_verify_hash = random_number followed by salt.
data_to_verify_hash(random_number, salt) == random_number \o salt

\* verify_attestation dropping the verifier's verdict.
verify_attestation_swallowed(public_key, random_number, salt, signature) ==
    LET unused == verify(public_key, Sha256_digest(random_number \o salt),
                         signature)
    IN  Ok(<<>>)

\* verify_attestation checking against the signer's own key, whatever
\* public key it was handed.
verify_attestation_any_key(public_key, random_number, salt, signature) ==
    IF verify(verifying_key(signature.signer),
              Sha256_digest(random_number \o salt), signature)
    THEN Ok(<<>>)
    ELSE Err("Signature verification failed")

\* verify_attestation accepting only the keys of constructed instances.
verify_attestation_registered(public_key, random_number, salt, signature) ==
    IF /\ \E i \in DOMAIN attesters : attesters[i].verifying_key = public_key
       /\ verify(public_key, Sha256_digest(random_number \o salt), signature)
    THEN Ok(<<>>)
    ELSE Err("Signature verification failed")

\* RngAttester::verify_attestation(public_key, random_number, salt, signature)
verify_attestation(public_key, random_number, salt, signature) ==
    LET hashed_data_to_verify ==
            Sha256_digest(data_to_verify_hash(random_number, salt))
    IN  IF verify(public_key, hashed_data_to_verify, signature)
        THEN Ok(<<>>)
        ELSE Err("Signature verification failed")

\* ---------------------------------------------------------- initially
NoCall == [op |-> "none"]

Init ==
    /\ attesters = [i \in {} |-> i]
    /\ prev = NoCall
    /\ last = NoCall
    /\ pc \in {"api", "main_13"}
    /\ locals = [exit |-> "running"]

\* ------------------------------------------------ the callers' inputs
\* Values handed to attest: the empty value, and what the OS source
\* delivers for the lengths 1..MaxLen.
Values ==
    {<<>>} \cup {fill_bytes(vec_zeros(n), s) : n \in 1..MaxLen, s \in Seeds}

\* Lengths handed to generate_random_number.
Lengths == (0..MaxLen) \cup {random_number_length}

\* Bit k of byte b inverted.
flip_bit(b, k) ==
    IF (b \div (2 ^ k)) % 2 = 1 THEN b - 2 ^ k ELSE b + 2 ^ k

\* Bit k of byte pos of the byte string s inverted.
flip_in(s, pos, k) == [s EXCEPT ![pos] = flip_bit(@, k)]

\* Bit `bit` of the signature's 64-byte encoding inverted.
flip_signature(signature, bit) ==
    [signature EXCEPT !.mask =
        IF bit \in @ THEN @ \ {bit} ELSE @ \cup {bit}]

SignatureBits == 0..(64 * 8 - 1)

\* The byte strings s and t differ in exactly one bit.
OneBitApart(s, t) ==
    /\ Len(s) = Len(t)
    /\ \E p \in 1..Len(s) :
        /\ \E k \in 0..7 : t[p] = flip_bit(s[p], k)
        /\ \A q \in 1..Len(s) : q # p => t[q] = s[q]

\* The triple t differs from the attestation a in exactly one bit of
\* exactly one of value, salt, signature.
SingleBitFlip(a, t) ==
    \/ /\ OneBitApart(a.value, t.value)
       /\ t.salt = a.salt /\ t.signature = a.signature
    \/ /\ OneBitApart(a.salt, t.salt)
       /\ t.value = a.value /\ t.signature = a.signature
    \/ /\ \E b \in SignatureBits :
            t.signature = flip_signature(a.signature, b)
       /\ t.value = a.value /\ t.salt = a.salt

\* The triples with the same value || salt as a, the boundary moved by
\* one byte.
BoundaryMoves(a) ==
    (IF Len(a.value) >= 1
     THEN {[a EXCEPT !.value = SubSeq(@, 1, Len(@) - 1),
                     !.salt = <<a.value[Len(a.value)]>> \o @]}
     ELSE {})
    \cup
    (IF Len(a.salt) >= 1
     THEN {[a EXCEPT !.value = @ \o <<a.salt[1]>>,
                     !.salt = Tail(@)]}
     ELSE {})

\* What a caller holding the attestation a may hand to verify_attestation
\* in its place: a with one bit inverted in one field, a with the boundary
\* moved.
Tampered(a) ==
    (IF Len(a.value) >= 1
          THEN {[a EXCEPT !.value = flip_in(@, 1, 0)]} ELSE {})
    \cup {[a EXCEPT !.salt = flip_in(@, Len(@), 7)]}
    \cup {[a EXCEPT !.signature = flip_signature(@, 0)]}
    \cup BoundaryMoves(a)

\* The public keys a verifier may hold.
PublicKeys == {verifying_key(SigningKey_generate(s)) : s \in Seeds}

\* Triples anyone can build without an attester instance: a keypair of
\* their own making, signed over a value and a salt of their choice.
SelfMade ==
    LET made == {attest(RngAttester_new([ok |-> TRUE, seed |-> k]).val, <<>>,
                        [ok |-> TRUE, seed |-> s]) : k \in Seeds, s \in Seeds}
    IN  {r.val : r \in {x \in made : x.tag = "Ok"}}

\* ------------------------------------------------------ library calls
\* A caller constructs the instance i with RngAttester::new().
New(i) ==
    /\ pc = "api"
    /\ i \notin DOMAIN attesters
    /\ \E rng \in OsRng :
        LET r == RngAttester_new(rng)
        IN  /\ attesters' = IF r.tag = "Ok"
                            THEN attesters @@ (i :> r.val)
                            ELSE attesters
            /\ last' = [op |-> "new", self |-> i, rng |-> rng, res |-> r]
    /\ prev' = last
    /\ UNCHANGED <<pc, locals>>

\* A caller constructs the instance i with RngAttester::default().
Default(i) ==
    /\ pc = "api"
    /\ i \notin DOMAIN attesters
    /\ \E rng \in OsRng :
        LET r == RngAttester_default(rng)
        IN  /\ attesters' = IF r.tag = "Ok"
                            THEN attesters @@ (i :> r.val)
                            ELSE attesters
            /\ last' = [op |-> "default", self |-> i, rng |-> rng, res |-> r]
    /\ prev' = last
    /\ UNCHANGED <<pc, locals>>

\* A caller calls attesters[i].attest(random_number): &self is read only.
Attest(i, random_number) ==
    /\ pc = "api"
    /\ i \in DOMAIN attesters
    /\ \E rng \in OsRng :
        last' = [op |-> "attest", self |-> i, random_number |-> random_number,
                 rng |-> rng, res |-> attest(attesters[i], random_number, rng)]
    /\ prev' = last
    /\ UNCHANGED <<attesters, pc, locals>>

\* A caller calls attesters[i].get_public_key().
GetPublicKey(i) ==
    /\ pc = "api"
    /\ i \in DOMAIN attesters
    /\ last' = [op |-> "get_public_key", self |-> i,
                res |-> get_public_key(attesters[i])]
    /\ prev' = last
    /\ UNCHANGED <<attesters, pc, locals>>

\* The inputs at hand for a verify call. After an attest: what it returned
\* with any public key, or a tampered form of it with the attester's key.
\* Otherwise: a self-made triple with any public key.
AtHand ==
    IF last.op = "attest" /\ last.res.tag = "Ok"
    THEN {<<k, last.res.val>> : k \in PublicKeys}
         \cup {<<get_public_key(attesters[last.self]), a>> :
                    a \in Tampered(last.res.val)}
    ELSE {<<k, a>> : k \in PublicKeys, a \in SelfMade}

\* A caller calls RngAttester::verify_attestation: an associated function,
\* no instance is involved.
Verify(public_key, a) ==
    /\ pc = "api"
    /\ last' = [op |-> "verify_attestation", public_key |-> public_key,
                random_number |-> a.value, salt |-> a.salt,
                signature |-> a.signature,
                res |-> verify_attestation(public_key, a.value, a.salt,
                                           a.signature)]
    /\ prev' = last
    /\ UNCHANGED <<attesters, pc, locals>>

\* A caller calls RngPerformer::new().generate_random_number(length).
Generate(length) ==
    /\ pc = "api"
    /\ \E rng \in OsRng :
        last' = [op |-> "generate_random_number", length |-> length,
                 rng |-> rng,
                 res |-> generate_random_number(RngPerformer_new, length, rng)]
    /\ prev' = last
    /\ UNCHANGED <<attesters, pc, locals>>

\* ------------------------------------------------------------ main.rs
\* main leaves with `exit`: the `?` operator and `return Err(e)` leave
\* with "Err", a panic unwinds main, the last line leaves with "Ok".
Leave(exit) ==
    /\ pc' = "exit"
    /\ locals' = [locals EXCEPT !.exit = exit]

\* let rng_performer = RngPerformer::new();
Main_13 ==
    /\ pc = "main_13"
    /\ locals' = locals @@ [rng_performer |-> RngPerformer_new]
    /\ pc' = "main_17"
    /\ UNCHANGED <<attesters, prev, last>>

\* let rng_attester = RngAttester::new().map_err(..)?;
Main_17 ==
    /\ pc = "main_17"
    /\ \E rng \in OsRng :
        LET r == RngAttester_new(rng)
        IN  IF r.tag = "Ok"
            THEN /\ locals' = locals @@ [rng_attester |-> r.val]
                 /\ pc' = "main_21"
            ELSE Leave(r.tag)
    /\ UNCHANGED <<attesters, prev, last>>

\* let public_key = rng_attester.get_public_key();
Main_21 ==
    /\ pc = "main_21"
    /\ locals' = locals @@
                 [public_key |-> get_public_key(locals.rng_attester)]
    /\ pc' = "main_26"
    /\ UNCHANGED <<attesters, prev, last>>

\* let raw_random_number =
\*     rng_performer.generate_random_number(random_number_length).map_err(..)?;
Main_26 ==
    /\ pc = "main_26"
    /\ \E rng \in OsRng :
        LET r == generate_random_number(locals.rng_performer,
                                        random_number_length, rng)
        IN  IF r.tag = "Ok"
            THEN /\ locals' = locals @@ [raw_random_number |-> r.val]
                 /\ pc' = "main_31"
            ELSE Leave(r.tag)
    /\ UNCHANGED <<attesters, prev, last>>

\* let (_original_random_number, salt, signature) =
\*     rng_attester.attest(&raw_random_number).map_err(..)?;
Main_31 ==
    /\ pc = "main_31"
    /\ \E rng \in OsRng :
        LET r == attest(locals.rng_attester, locals.raw_random_number, rng)
        IN  IF r.tag = "Ok"
            THEN /\ locals' = locals @@
                              [salt |-> r.val.salt,
                               signature |-> r.val.signature]
                 /\ pc' = "main_39"
            ELSE Leave(r.tag)
    /\ UNCHANGED <<attesters, prev, last>>

\* match RngAttester::verify_attestation(public_key, &raw_random_number,
\*                                       &salt, &signature) { .. }
Main_39 ==
    /\ pc = "main_39"
    /\ LET r == verify_attestation(locals.public_key,
                                   locals.raw_random_number,
                                   locals.salt, locals.signature)
       IN  Leave(r.tag)
    /\ UNCHANGED <<attesters, prev, last>>

\* ------------------------------------------------------ specification
Next ==
    \/ \E i \in Instances : New(i)
    \/ \E i \in Instances : Default(i)
    \/ \E i \in Instances, v \in Values : Attest(i, v)
    \/ \E i \in Instances : GetPublicKey(i)
    \/ \E x \in AtHand : Verify(x[1], x[2])
    \/ \E n \in Lengths : Generate(n)
    \/ Main_13
    \/ Main_17
    \/ Main_21
    \/ Main_26
    \/ Main_31
    \/ Main_39

Spec == Init /\ [][Next]_vars

\* ------------------------------------------------------------- claims
\* The call c is an attest call that returned Ok.
AttestOk(c) == c.op = "attest" /\ c.res.tag = "Ok"

\* The call c is a verify_attestation call.
IsVerify(c) == c.op = "verify_attestation"

\* The triple the verify call c was handed.
TripleOf(c) ==
    [value |-> c.random_number, salt |-> c.salt, signature |-> c.signature]

\* The public key of the instance the attest call c was made on.
KeyOf(c) == get_public_key(attesters[c.self])

\* The outcome of verify_attestation on the public key k and the triple a.
Verdict(k, a) == verify_attestation(k, a.value, a.salt, a.signature).tag

\* C1: round-trip validity. Whenever attest on a value of length >= 1
\* returns (v, salt, sig), verify_attestation with the attester's public key
\* on (v, salt, sig) returns Ok: as evaluated on what attest returned, as
\* returned by a verify call made right after it, and in main.
C1_RoundTrip ==
    /\ (AttestOk(last) /\ Len(last.random_number) >= 1)
        => Verdict(KeyOf(last), last.res.val) = "Ok"
    /\ (/\ AttestOk(prev) /\ Len(prev.random_number) >= 1
        /\ IsVerify(last)
        /\ last.public_key = KeyOf(prev)
        /\ TripleOf(last) = prev.res.val)
        => last.res = Ok(<<>>)
    /\ (pc = "exit" /\ "signature" \in DOMAIN locals) => locals.exit = "Ok"

\* C1 witness: a verify call on what the attest call before it returned for
\* a non-empty value, under the attester's key, returned Ok.
C1_Witness ==
    /\ AttestOk(prev) /\ Len(prev.random_number) >= 1
    /\ IsVerify(last)
    /\ last.public_key = KeyOf(prev)
    /\ TripleOf(last) = prev.res.val
    /\ last.res.tag = "Ok"

\* C2: tamper sensitivity. After a successful attest, every triple that
\* differs from the returned one in a single bit of exactly one of value,
\* salt, signature is rejected by verify_attestation under the attester's
\* public key.
C2_TamperSensitivity ==
    /\ AttestOk(last)
        => LET a == last.res.val
               key == KeyOf(last)
           IN  /\ \A p \in 1..Len(a.value), k \in 0..7 :
                    Verdict(key, [a EXCEPT !.value = flip_in(@, p, k)]) = "Err"
               /\ \A p \in 1..Len(a.salt), k \in 0..7 :
                    Verdict(key, [a EXCEPT !.salt = flip_in(@, p, k)]) = "Err"
               /\ \A b \in SignatureBits :
                    Verdict(key, [a EXCEPT !.signature = flip_signature(@, b)])
                        = "Err"
    /\ (/\ AttestOk(prev)
        /\ IsVerify(last)
        /\ last.public_key = KeyOf(prev)
        /\ SingleBitFlip(prev.res.val, TripleOf(last)))
        => last.res.tag = "Err"

\* C2 witness: a verify call on a single-bit flip of the salt that the
\* attest call before it returned was made, and returned an error.
C2_Witness ==
    /\ AttestOk(prev)
    /\ IsVerify(last)
    /\ last.public_key = KeyOf(prev)
    /\ SingleBitFlip(prev.res.val, TripleOf(last))
    /\ last.salt # prev.res.val.salt
    /\ last.res.tag = "Err"

\* C3: key binding. What attester A's attest returned is rejected under
\* the public key of any attester B with a different keypair; among all
\* public keys, only the one paired with the signing key verifies it.
C3_KeyBinding ==
    /\ AttestOk(last)
        => /\ \A b \in DOMAIN attesters :
                attesters[b].signing_key # attesters[last.self].signing_key
                => Verdict(get_public_key(attesters[b]), last.res.val) = "Err"
           /\ \A k \in PublicKeys :
                Verdict(k, last.res.val) = "Ok"
                => k = verifying_key(attesters[last.self].signing_key)
    /\ (/\ AttestOk(prev)
        /\ IsVerify(last)
        /\ TripleOf(last) = prev.res.val
        /\ last.public_key # KeyOf(prev))
        => last.res.tag = "Err"

\* C3 witness: two attesters with different keypairs exist, one attested,
\* and the verify call after it, under the other's public key, failed.
C3_Witness ==
    /\ AttestOk(prev)
    /\ IsVerify(last)
    /\ TripleOf(last) = prev.res.val
    /\ \E b \in DOMAIN attesters :
        /\ attesters[b].signing_key # attesters[prev.self].signing_key
        /\ last.public_key = get_public_key(attesters[b])
    /\ last.res.tag = "Err"

\* C4: the commitment binds value and salt as a pair. With the public key
\* and the signature as returned by attest, verify_attestation rejects every
\* pair (value', salt') other than the returned (value, salt), also when
\* value' || salt' = value || salt.
C4_PairBinding ==
    (/\ AttestOk(prev)
     /\ IsVerify(last)
     /\ last.public_key = KeyOf(prev)
     /\ last.signature = prev.res.val.signature
     /\ <<last.random_number, last.salt>>
            # <<prev.res.val.value, prev.res.val.salt>>)
    => last.res.tag = "Err"

C6_ConstructionFailureIsErr ==
    /\ (last.op = "new" /\ ~last.rng.ok) => last.res.tag = "Err"
    /\ (pc = "exit" /\ "rng_attester" \notin DOMAIN locals)
        => locals.exit = "Err"

C8_KeypairImmutable ==
    [][/\ \A i \in DOMAIN attesters :
            i \in DOMAIN attesters' /\ attesters'[i] = attesters[i]
       /\ \A i \in DOMAIN attesters' :
            attesters'[i].verifying_key
                = verifying_key(attesters'[i].signing_key)
       /\ last'.op = "get_public_key"
            => last'.res = verifying_key(attesters'[last'.self].signing_key)
       /\ last'.op \in {"attest", "get_public_key", "verify_attestation"}
            => attesters' = attesters]_vars

\* C8 witness: with two attesters constructed, an attest call on one was
\* followed by a get_public_key call on the other.
C8_Witness ==
    /\ DOMAIN attesters = Instances
    /\ AttestOk(prev)
    /\ last.op = "get_public_key"
    /\ last.self # prev.self
    /\ last.res = attesters[last.self].verifying_key

C10_AttestTotal ==
    last.op = "attest"
    => /\ last.res.tag # "Err"
       /\ last.rng.ok => last.res.tag = "Ok"
       /\ last.res.tag = "Ok"
            => /\ last.res.val.value = last.random_number
               /\ Len(last.res.val.salt) = SALT_LEN

\* C10 witness: attest on the empty value returned Ok with the empty value
\* and a 32-byte salt.
C10_Witness ==
    /\ AttestOk(last)
    /\ last.random_number = <<>>
    /\ last.res.val.value = <<>>
    /\ Len(last.res.val.salt) = SALT_LEN

====
